---- MODULE Spec2Model ----
(***************************************************************************)
(* Model of the htzbuild remote build orchestrator (RemoteBuilder): one    *)
(* run of run(), the remote detached job it launches, the provider-side    *)
(* instance, and the process-level exit / signal / uncaught-error          *)
(* handlers installed by registerCleanup.                                  *)
(*                                                                         *)
(* Strings are sequences of lexical atoms: "$", "{", "}", "&", a           *)
(* placeholder name, or an opaque chunk of ordinary text.                  *)
(***************************************************************************)
EXTENDS Integers, Sequences, FiniteSets, TLC

\* ------------------------------------------------------------------ bounds
MaxSignals == 1
MaxBlips == 1
MaxRegisterCalls == 3

\* ------------------------------------------------------- program constants
maxAttempts == 60

\* the JavaScript values null and undefined (not strings)
Null == <<"#null">>
Undef == <<"#undefined">>
StatusNull == 0 - 1

\* --------------------------------------------------------------- strings
PH(name) == <<"$", "{", name, "}">>

RECURSIVE ExpandRep(_, _)
\* String.prototype.replace with a string replacement: "$$" inserts "$",
\* "$&" inserts the matched text, everything else is literal.
ExpandRep(rep, matched) ==
  IF Len(rep) < 2 THEN rep
  ELSE IF rep[1] = "$" /\ rep[2] = "$"
       THEN <<"$">> \o ExpandRep(SubSeq(rep, 3, Len(rep)), matched)
  ELSE IF rep[1] = "$" /\ rep[2] = "&"
       THEN matched \o ExpandRep(SubSeq(rep, 3, Len(rep)), matched)
  ELSE <<rep[1]>> \o ExpandRep(Tail(rep), matched)

RECURSIVE ReplaceAll(_, _, _)
\* s.replace(/pat/g, rep) for a literal pattern: left to right, non
\* overlapping, the inserted text is not rescanned.
ReplaceAll(s, pat, rep) ==
  IF Len(s) < Len(pat) THEN s
  ELSE IF SubSeq(s, 1, Len(pat)) = pat
       THEN ExpandRep(rep, pat) \o ReplaceAll(SubSeq(s, Len(pat) + 1, Len(s)), pat, rep)
  ELSE <<Head(s)>> \o ReplaceAll(Tail(s), pat, rep)

\* ----------------------------------------------------------- configuration
P_APK == <<"/root/build-output", ".apk">>
P_AAB == <<"/root/build-output", ".aab">>
T_OUT_PROFILE == <<"/root/out-">> \o PH("PROFILE") \o <<".aab">>
P_OUT_APK == <<"/root/out", ".apk">>
P_OUT_PRODUCTION == <<"/root/out-", "production", ".aab">>

KeyDefault == <<"default">>
ProfileProduction == <<"production">>
ProfilePreview == <<"preview">>
Profiles == {ProfileProduction, ProfilePreview}

buildCommand ==
  <<"npx eas-cli build --local --platform android --profile \"$PROFILE\" --non-interactive --output $OUTPUT_FILE">>

DEFAULT_CONFIG ==
  [ buildCommand |-> buildCommand,
    remoteProjectDir |-> <<"/root/project">>,
    remoteEnvFile |-> <<"/root/build-env", ".sh">>,
    remoteLogPath |-> <<"/root/build", ".log">>,
    remoteStatusFile |-> <<"/root/build-status">>,
    artifactForProfile |-> (ProfileProduction :> P_AAB @@ KeyDefault :> P_APK),
    artifactCandidates |-> <<P_APK, P_AAB>> ]

\* deepMerge(DEFAULT_CONFIG, overrides): objects merge key by key, arrays
\* and scalars of the overlay replace the base value.
deepMerge(base, overrides) ==
  [ k \in DOMAIN base |->
      IF k \in DOMAIN overrides
      THEN IF k = "artifactForProfile"
           THEN overrides[k] @@ base[k]
           ELSE overrides[k]
      ELSE base[k] ]

ScenarioMapping == (ProfileProduction :> T_OUT_PROFILE @@ KeyDefault :> P_OUT_APK)

\* The overlays a htzbuild.config.json may carry in this model.
Overlays ==
  { [ x \in {} |-> <<>> ],
    [ artifactForProfile |-> ScenarioMapping ],
    [ artifactForProfile |-> ScenarioMapping,
      artifactCandidates |-> <<P_OUT_APK, T_OUT_PROFILE>> ],
    [ artifactCandidates |-> <<P_AAB, P_APK>> ] }

Configs == { deepMerge(DEFAULT_CONFIG, o) : o \in Overlays }

\* obj[key] of a plain object: undefined when the key is absent.
Lookup(obj, key) == IF key \in DOMAIN obj THEN obj[key] ELSE Undef

Falsy(v) == v = Undef \/ v = Null \/ v = <<>>

\* a || b
OrElse(a, b) == IF Falsy(a) THEN b ELSE a

\* variant: the ${PROFILE} replacement is missing
interpolateTemplate_KeepsProfile(template, prof, cfg) ==
  ReplaceAll(
    ReplaceAll(
      ReplaceAll(
        ReplaceAll(template, PH("REMOTE_PROJECT_DIR"), cfg.remoteProjectDir),
        PH("REMOTE_ENV_FILE"), cfg.remoteEnvFile),
      PH("REMOTE_LOG_PATH"), cfg.remoteLogPath),
    PH("REMOTE_STATUS_FILE"), cfg.remoteStatusFile)

interpolateTemplate(template, prof, cfg) ==
  ReplaceAll(
    ReplaceAll(
      ReplaceAll(
        ReplaceAll(
          ReplaceAll(template, PH("PROFILE"), prof),
          PH("REMOTE_PROJECT_DIR"), cfg.remoteProjectDir),
        PH("REMOTE_ENV_FILE"), cfg.remoteEnvFile),
      PH("REMOTE_LOG_PATH"), cfg.remoteLogPath),
    PH("REMOTE_STATUS_FILE"), cfg.remoteStatusFile)

\* runBuild: this.artifactMapping[this.profile] || this.artifactMapping.default
outputTemplate(prof, cfg) ==
  OrElse(Lookup(cfg.artifactForProfile, prof), Lookup(cfg.artifactForProfile, KeyDefault))

RemoteCandidate(i, prof, cfg) == interpolateTemplate(cfg.artifactCandidates[i], prof, cfg)

Extensions == {".apk", ".aab", ".sh", ".log"}

\* path.extname for the paths of this model: the last atom when it is an
\* extension, otherwise the empty string.
extname(p) == IF p # <<>> /\ p[Len(p)] \in Extensions THEN <<p[Len(p)]>> ELSE <<>>

\* the environment handed to the constructor: a plain object, name -> value
NoEnv == [ x \in {} |-> <<>> ]
RunEnvs == {NoEnv, ("HETZNER_SSH_KEY" :> <<"my-key">>)}

Tokens == {<<"s3cr3t">>, <<"it's">>}
UnitEnvs == {NoEnv} \cup {("EXPO_TOKEN" :> t) : t \in Tokens \cup {<<>>}}

\* Buffer.from(token, "utf8").toString("base64") for the tokens above
Base64Table == ("s3cr3t" :> "czNjcjN0" @@ "it's" :> "aXQncw==")
toBase64(t) == <<Base64Table[t[1]]>>

\* env.EXPO_TOKEN.length, as the template literal prints it
LengthTable == ("s3cr3t" :> "6" @@ "it's" :> "4")
expoTokenLength(t) == <<LengthTable[t[1]]>>

\* atoms outside [A-Za-z0-9_./=-]
UnsafeAtoms == {"$", "{", "}", "&", "'", " ", "it's"}

\* quoteShellArg: a safe word is returned as is, anything else is wrapped in
\* single quotes with each quote written as '\''
quoteShellArg(v) ==
  IF v # <<>> /\ \A i \in 1..Len(v) : v[i] \notin UnsafeAtoms
  THEN v
  ELSE <<"'">> \o [i \in 1..Len(v) |-> IF v[i] = "'" THEN "'\\''" ELSE v[i]] \o <<"'">>

envScript ==
  << <<"export ANDROID_HOME=/opt/android-sdk">>,
     <<"export ANDROID_SDK_ROOT=/opt/android-sdk">>,
     <<"export PATH=$PATH:$ANDROID_HOME/cmdline-tools/latest/bin:$ANDROID_HOME/platform-tools">> >>

\* variant: the token is written into the export line as it is
TokenLines_Raw(e, cfg) ==
  LET tok == Lookup(e, "EXPO_TOKEN")
  IN IF ~Falsy(tok)
     THEN << <<"echo \"Adding EXPO_TOKEN: YES (">> \o expoTokenLength(tok) \o <<" chars)\"">>,
             <<"echo \"", "export EXPO_TOKEN=">> \o tok \o <<"\"", " >> ">> \o cfg.remoteEnvFile >>
     ELSE << <<"echo \"Adding EXPO_TOKEN: NO\"">>, <<"# EXPO_TOKEN not provided">> >>

\* runBuild: the two lines pushed for EXPO_TOKEN
TokenLines(e, cfg) ==
  LET tok == Lookup(e, "EXPO_TOKEN")
  IN IF ~Falsy(tok)
     THEN << <<"echo \"Adding EXPO_TOKEN: YES (">> \o expoTokenLength(tok) \o <<" chars)\"">>,
             <<"echo \"", "export EXPO_TOKEN=", "$(printf '%s' '">> \o toBase64(tok)
               \o <<"' | ", "base64 -d", ")\"", " >> ">> \o cfg.remoteEnvFile >>
     ELSE << <<"echo \"Adding EXPO_TOKEN: NO\"">>, <<"# EXPO_TOKEN not provided">> >>

\* constructor: this.config.buildCommand || DEFAULT_CONFIG.buildCommand
this_buildCommand(cfg) == OrElse(cfg.buildCommand, DEFAULT_CONFIG.buildCommand)

\* variant: ${PROFILE} and ${OUTPUT_FILE} are replaced before embedding
buildLine_Interpolated(prof, cfg, remoteOutputPath) ==
  <<"  ">> \o ReplaceAll(ReplaceAll(this_buildCommand(cfg), PH("PROFILE"), prof),
                        PH("OUTPUT_FILE"), remoteOutputPath)

\* runBuild: the line `  ${this.buildCommand}` of the nohup block
buildLine(prof, cfg, remoteOutputPath) == <<"  ">> \o this_buildCommand(cfg)

\* runBuild: scriptLines, one sequence of atoms per line
scriptLines(prof, e, cfg) ==
  LET envFileArg == quoteShellArg(cfg.remoteEnvFile)
      dirArg == quoteShellArg(cfg.remoteProjectDir)
      remoteOutputPath == interpolateTemplate(outputTemplate(prof, cfg), prof, cfg)
      outputFileAssignment == <<"OUTPUT_FILE=">> \o quoteShellArg(remoteOutputPath)
  IN << <<"set -e">>, <<>>, <<"cat <<'ENVFILE' > ">> \o envFileArg >>
       \o envScript
       \o << <<"ENVFILE">>, <<>> >>
       \o TokenLines(e, cfg)
       \o << <<"echo \"", "export PROFILE=">> \o quoteShellArg(prof) \o <<"\"", " >> ">> \o envFileArg,
             <<"echo \"=== build-env.sh contents ===\"">>,
             <<"cat ">> \o envFileArg,
             <<"echo \"=== end build-env.sh ===\"">>,
             <<"cd ">> \o dirArg,
             <<"git config --global --add safe.directory ">> \o dirArg,
             <<"git config --global user.email \"build@localhost\"">>,
             <<"git config --global user.name \"EAS Builder\"">>,
             <<"git init -q">>,
             <<"git add -A">>,
             <<"git commit -m \"Build commit\" -q">>,
             <<>>,
             <<"nohup bash -c '">>,
             <<"  source ">> \o envFileArg,
             <<"  echo \"EXPO_TOKEN in subshell: ${EXPO_TOKEN:+SET}${EXPO_TOKEN:-NOT SET}\"">>,
             <<"  echo \"PROFILE in subshell: $PROFILE\"">>,
             <<"  set -e">>,
             <<"  echo \"Installing npm dependencies...\"">>,
             <<"  npm install">>,
             <<"  echo \"Running EAS build...\"">>,
             <<"  ">> \o outputFileAssignment,
             buildLine(prof, cfg, remoteOutputPath),
             <<"  echo \"BUILD_COMPLETE\" > ">> \o quoteShellArg(cfg.remoteStatusFile),
             <<"' > ">> \o quoteShellArg(cfg.remoteLogPath) \o <<" 2>&1 &">>,
             <<"echo \"Build started in background\"">> >>

\* what new Date().toISOString() may return when the artifact is named
ISO_2024 == <<"2024", "-", "01", "-", "01", "T", "12", ":", "00", ":", "00", ".", "000", "Z">>
ISO_2026 == <<"2026", "-", "11", "-", "03", "T", "23", ":", "59", ":", "59", ".", "999", "Z">>
Clocks == {ISO_2024, ISO_2026}

\* s.replace(/[:.]/g, "-")
ReplaceColonsAndDots(s) == [i \in 1..Len(s) |-> IF s[i] \in {":", "."} THEN "-" ELSE s[i]]

\* s.replace("T", "-"): a string pattern replaces the first occurrence only
ReplaceFirstT(s) ==
  IF \E i \in 1..Len(s) : s[i] = "T"
  THEN LET k == CHOOSE i \in 1..Len(s) : s[i] = "T" /\ \A j \in 1..(i - 1) : s[j] # "T"
       IN [i \in 1..Len(s) |-> IF i = k THEN "-" ELSE s[i]]
  ELSE s

\* s.split("Z")[0]
BeforeFirstZ(s) ==
  IF \E i \in 1..Len(s) : s[i] = "Z"
  THEN LET k == CHOOSE i \in 1..Len(s) : s[i] = "Z" /\ \A j \in 1..(i - 1) : s[j] # "Z"
       IN SubSeq(s, 1, k - 1)
  ELSE s

\* variant: the date/time separator is kept
timestamp_KeepsT(iso) == BeforeFirstZ(ReplaceColonsAndDots(iso))

timestamp(iso) == BeforeFirstZ(ReplaceFirstT(ReplaceColonsAndDots(iso)))

\* ------------------------------------------------------------------ state
VARIABLES
  profile, config, env,                     \* constructor arguments
  pc, error, exitCode,                      \* position of the process
  serverId, serverIp, artifactName,         \* RemoteBuilder fields
  remoteOutputPath,
  cleanupRegistered, handlers,              \* registerCleanup
  attempt, sshAttempts, reachStatus,        \* waitForServer locals
  candIdx, obs, logTailFetched,             \* monitorBuild / retrieveArtifact locals
  copied, copyCalls, retChecks,
  stagesStarted, stagesDone,                \* stages entered, in order; stages returned
  sigPending, sigCount, stagesAtSignal,     \* signals delivered by the OS
  serverExists, createCalls, deletes,       \* provider side
  createLocals,                             \* createServer: what the one call saw and chose
  sshCalls, blips,                          \* execution channel: calls of the latest step
  jobPhase, remoteFiles, scriptsSubmitted,  \* remote host
  tplIn, tplOut, tplAgain,                  \* interpolateTemplate: argument, results
  script,                                   \* runBuild: the lines of the script composed
  registerCalls,                            \* registerCleanup() calls made outside run()
  argv, parsedArgs,                         \* runCli: process.argv, result of parseArgs
  fsFolder, dirEntries,                     \* the env folder on disk: its name, its entries
  loadedEnv, preEnv, processEnv             \* loadEnvFromFolder result; process.env at start, now

cliVars == <<argv, parsedArgs, fsFolder, dirEntries, loadedEnv, preEnv, processEnv>>
unitVars == <<tplIn, tplOut, tplAgain, script, registerCalls, cliVars>>
cfgVars == <<profile, config, env, unitVars>>
builderVars == <<serverId, serverIp, artifactName, remoteOutputPath>>
guardVars == <<cleanupRegistered, handlers>>
wfsVars == <<attempt, sshAttempts, reachStatus>>
monVars == <<candIdx, obs, logTailFetched>>
retVars == <<copied, copyCalls, retChecks>>
sigVars == <<sigPending, sigCount, stagesAtSignal>>
provVars == <<serverExists, createCalls, deletes, createLocals>>
chanVars == <<sshCalls, blips>>
jobVars == <<jobPhase, remoteFiles, scriptsSubmitted>>

vars == <<profile, config, env, pc, error, exitCode, serverId, serverIp, artifactName,
          remoteOutputPath, cleanupRegistered, handlers, attempt, sshAttempts, reachStatus,
          candIdx, obs, logTailFetched, copied, copyCalls, retChecks, stagesStarted, stagesDone,
          sigPending, sigCount, stagesAtSignal, serverExists, createCalls, createLocals,
          deletes, sshCalls, blips, jobPhase, remoteFiles, scriptsSubmitted,
          tplIn, tplOut, tplAgain, script, registerCalls, argv, parsedArgs, fsFolder, dirEntries,
          loadedEnv, preEnv, processEnv>>

StageOrder == <<"checkPrerequisites", "createServer", "waitForServer", "syncProject",
                "runBuild", "monitorBuild", "retrieveArtifact">>

ProviderId == <<"4711">>
ProviderIp == <<"203.0.113.7">>

NoObs == [status |-> StatusNull, procs |-> StatusNull, misses |-> 0, artifact |-> FALSE]

\* the fields of a fresh process and a fresh remote side
InitFields ==
  /\ error = "none"
  /\ exitCode = StatusNull
  /\ serverId = Null
  /\ serverIp = Null
  /\ artifactName = Null
  /\ remoteOutputPath = Null
  /\ cleanupRegistered = FALSE
  /\ handlers = [exit |-> 0, SIGINT |-> 0, SIGTERM |-> 0, uncaughtException |-> 0]
  /\ attempt = 0
  /\ sshAttempts = 0
  /\ reachStatus = StatusNull
  /\ candIdx = 1
  /\ obs = NoObs
  /\ logTailFetched = FALSE
  /\ copied = Null
  /\ copyCalls = 0
  /\ retChecks = <<>>
  /\ stagesStarted = <<>>
  /\ stagesDone = 0
  /\ sigPending = "none"
  /\ sigCount = 0
  /\ stagesAtSignal = 0
  /\ serverExists = FALSE
  /\ createCalls = 0
  /\ createLocals = <<>>
  /\ deletes = <<>>
  /\ sshCalls = {}
  /\ blips = 0
  /\ jobPhase = "none"
  /\ remoteFiles = {}
  /\ scriptsSubmitted = 0

\* nothing called outside run()
NoUnits ==
  /\ tplIn = Null
  /\ tplOut = Null
  /\ tplAgain = Null
  /\ script = Null
  /\ registerCalls = 0

\* the builder is constructed by a caller other than runCli
NoCli ==
  /\ argv = <<>>
  /\ parsedArgs = Null
  /\ fsFolder = ""
  /\ dirEntries = <<>>
  /\ loadedEnv = NoEnv
  /\ preEnv = NoEnv
  /\ processEnv = NoEnv

Init ==
  /\ profile \in Profiles
  /\ config \in Configs
  /\ env \in RunEnvs
  /\ pc = "idle"
  /\ InitFields
  /\ NoUnits
  /\ NoCli

\* --------------------------------------------------- execution channel
\* variant: allowFailure is not consulted
runSSHCommandThrows_IgnoresAllowFailure(status, allowFailure) == status # 0

\* runSSHCommand: throws exactly on a non-zero status without allowFailure.
runSSHCommandThrows(status, allowFailure) == status # 0 /\ ~allowFailure

SshCall(cmd, status, allowFailure) ==
  [cmd |-> cmd, status |-> status, allowFailure |-> allowFailure,
   threw |-> runSSHCommandThrows(status, allowFailure)]

\* What an ssh invocation reports for a remote command whose own exit
\* status is `real`: that status, or 255 when the connection drops.
Observed(real) == {real} \cup (IF blips < MaxBlips THEN {255} ELSE {})

Blip(real, st) == IF st # real THEN blips + 1 ELSE blips

\* a rejected run(): the error unwinds out of the async function
Fail(e) == pc' = "rejected" /\ error' = e /\ UNCHANGED stagesDone

\* the stage returns normally and run() continues at `next`
Return(next) == pc' = next /\ stagesDone' = stagesDone + 1 /\ UNCHANGED error

\* ------------------------------------------------------- cleanup guard
DeleteStatuses == {0, 1, StatusNull}

\* variant: a failed delete command raises out of the callback
cleanupThrows_OnFailure(st) == st # 0

\* spawnSync reports a non-zero exit or a spawn error in its result and the
\* call sits in a try block: nothing leaves the callback
cleanupThrows(st) == FALSE

\* one hcloud server delete as the callback ran it: the id passed, the
\* status returned, the line logged after it, whether the callback threw
DeleteRecord(st) ==
  [id |-> serverId, status |-> st, logged |-> "Server deleted", threw |-> cleanupThrows(st)]

\* variant: the serverId guard is missing
cleanupHandler_NoGuard ==
  \E st \in DeleteStatuses :
    /\ st = 0 => (serverExists /\ serverId = ProviderId)
    /\ deletes' = Append(deletes, DeleteRecord(st))
    /\ serverExists' = IF st = 0 THEN FALSE ELSE serverExists

\* cleanupHandler: no-op without serverId, otherwise one hcloud server
\* delete whose result is ignored, followed by the success log line.
cleanupHandler ==
  IF Falsy(serverId)
  THEN UNCHANGED <<deletes, serverExists>>
  ELSE \E st \in DeleteStatuses :
         /\ st = 0 => (serverExists /\ serverId = ProviderId)
         /\ deletes' = Append(deletes, DeleteRecord(st))
         /\ serverExists' = IF st = 0 THEN FALSE ELSE serverExists

\* variant: the cleanupRegistered flag is not consulted
registerCleanup_call_NoFlag ==
  /\ handlers' = [h \in DOMAIN handlers |-> handlers[h] + 1]
  /\ cleanupRegistered' = TRUE

\* the body of registerCleanup(): return if already registered, otherwise
\* one process.on for each of exit, SIGINT, SIGTERM, uncaughtException
registerCleanup_call ==
  IF cleanupRegistered
  THEN UNCHANGED guardVars
  ELSE /\ handlers' = [h \in DOMAIN handlers |-> handlers[h] + 1]
       /\ cleanupRegistered' = TRUE

\* variant: run() starts without registering
registerCleanup_Skips ==
  /\ pc = "idle"
  /\ pc' = "prereq"
  /\ UNCHANGED <<cfgVars, guardVars, error, exitCode, builderVars, wfsVars, monVars, retVars,
                 stagesStarted, stagesDone, sigVars, provVars, chanVars, jobVars>>

\* run(): this.registerCleanup() is its first call
registerCleanup ==
  /\ pc = "idle"
  /\ registerCleanup_call
  /\ pc' = "prereq"
  /\ UNCHANGED <<cfgVars, error, exitCode, builderVars, wfsVars, monVars, retVars,
                 stagesStarted, stagesDone, sigVars, provVars, chanVars, jobVars>>

\* ------------------------------------------------------------ the stages
\* variant: a failed prerequisite is recorded but run() goes on
checkPrerequisites_GoesOn ==
  /\ pc = "prereq"
  /\ stagesStarted' = Append(stagesStarted, "checkPrerequisites")
  /\ \E ok \in BOOLEAN :
       IF ok THEN Return("create")
       ELSE pc' = "create" /\ error' = "PrerequisiteMissing" /\ UNCHANGED stagesDone
  /\ UNCHANGED <<cfgVars, exitCode, builderVars, guardVars, wfsVars, monVars, retVars,
                 sigVars, provVars, chanVars, jobVars>>

checkPrerequisites ==
  /\ pc = "prereq"
  /\ stagesStarted' = Append(stagesStarted, "checkPrerequisites")
  /\ \E ok \in BOOLEAN :
       IF ok THEN Return("create") ELSE Fail("PrerequisiteMissing")
  /\ UNCHANGED <<cfgVars, exitCode, builderVars, guardVars, wfsVars, monVars, retVars,
                 sigVars, provVars, chanVars, jobVars>>

\* The shapes of the JSON document printed by hcloud server create.
Responses == {"full", "noServer", "noId", "noIp", "badJson"}

\* String(createdServer.id): a missing id becomes the string "undefined"
ResponseId(r) == IF r = "noId" THEN <<"undefined">> ELSE ProviderId

\* what `hcloud ssh-key list -o noheader -o columns=name` may do: fail, print
\* nothing, or print one padded name per line
SshKeyListings ==
  { [threw |-> TRUE, lines |-> <<>>],
    [threw |-> FALSE, lines |-> << <<>> >>],
    [threw |-> FALSE, lines |-> << <<"key-a", " ">>, <<"key-b">> >>] }

RECURSIVE Trim(_)
\* String.prototype.trim over atoms: blanks at both ends go
Trim(s) ==
  IF s = <<>> THEN s
  ELSE IF Head(s) = " " THEN Trim(Tail(s))
  ELSE IF s[Len(s)] = " " THEN Trim(SubSeq(s, 1, Len(s) - 1))
  ELSE s

\* variant: the last listed key is taken
getFirstSshKey_Last(listing) ==
  IF listing.threw THEN Null
  ELSE OrElse(Trim(listing.lines[Len(listing.lines)]), Null)

\* listing.split("\n")[0].trim() || null, null when the command throws
getFirstSshKey(listing) ==
  IF listing.threw THEN Null
  ELSE OrElse(Trim(listing.lines[1]), Null)

createServer ==
  /\ pc = "create"
  /\ stagesStarted' = Append(stagesStarted, "createServer")
  /\ \E listing \in SshKeyListings, status \in {0, 1}, r \in Responses :
       LET envKey == Lookup(env, "HETZNER_SSH_KEY")
           asked == Falsy(envKey)
           sshKeyName == IF asked THEN getFirstSshKey(listing) ELSE envKey
           seen == [asked |-> asked,
                    listing |-> IF asked THEN listing ELSE [threw |-> FALSE, lines |-> <<>>],
                    sshKeyName |-> sshKeyName]
       IN
       IF Falsy(sshKeyName)
       THEN /\ Fail("No SSH key found")
            /\ createLocals' = <<seen @@ [status |-> StatusNull, response |-> "none"]>>
            /\ UNCHANGED <<serverId, serverIp, serverExists, createCalls>>
       ELSE /\ createCalls' = createCalls + 1
            /\ createLocals' =
                 <<seen @@ [status |-> status, response |-> IF status = 0 THEN r ELSE "none"]>>
            /\ serverExists' = (status = 0)
            /\ IF status # 0
               THEN Fail("Failed to create server") /\ UNCHANGED <<serverId, serverIp>>
               ELSE IF r \in {"badJson", "noServer"}
               THEN /\ Fail("Unable to parse server creation response")
                    /\ UNCHANGED <<serverId, serverIp>>
               ELSE /\ serverId' = ResponseId(r)
                    /\ IF r = "noIp"
                       THEN Fail("Unable to determine server IP address") /\ UNCHANGED serverIp
                       ELSE serverIp' = ProviderIp /\ Return("wfs_enter")
  /\ UNCHANGED <<cfgVars, exitCode, artifactName, remoteOutputPath, guardVars, wfsVars,
                 monVars, retVars, sigVars, deletes, chanVars, jobVars>>

\* variant: off by one
LoopContinues_OffByOne(a) == a <= maxAttempts

\* while (attempt < maxAttempts)
LoopContinues(a) == a < maxAttempts

waitForServer_enter ==
  /\ pc = "wfs_enter"
  /\ stagesStarted' = Append(stagesStarted, "waitForServer")
  /\ attempt' = 0
  /\ pc' = IF LoopContinues(0) THEN "wfs_try" ELSE "wfs_after"
  /\ UNCHANGED <<cfgVars, error, exitCode, builderVars, guardVars, sshAttempts, reachStatus,
                 monVars, retVars, stagesDone, sigVars, provVars, chanVars, jobVars>>

\* one iteration of the reachability loop up to its break or its delay
waitForServer_attempt ==
  /\ pc = "wfs_try"
  /\ sshAttempts' = sshAttempts + 1
  /\ \E status \in {0, 255} :
       /\ sshCalls' = {SshCall("echo ready", status, TRUE)}
       /\ reachStatus' = status
       /\ IF status = 0
          THEN pc' = "wfs_after" /\ UNCHANGED attempt
          ELSE pc' = "wfs_sleep" /\ attempt' = attempt + 1
  /\ UNCHANGED <<cfgVars, error, exitCode, builderVars, guardVars, monVars, retVars,
                 stagesStarted, stagesDone, sigVars, provVars, blips, jobVars>>

\* the 5 s timer fires and the loop condition is evaluated again
waitForServer_wake ==
  /\ pc = "wfs_sleep"
  /\ sigPending = "none"
  /\ pc' = IF LoopContinues(attempt) THEN "wfs_try" ELSE "wfs_after"
  /\ UNCHANGED <<cfgVars, error, exitCode, builderVars, guardVars, wfsVars, monVars,
                 retVars, stagesStarted, stagesDone, sigVars, provVars, chanVars, jobVars>>

\* after the loop: timeout test, cloud-init wait, apt lock wait; the locals
\* of the call are released
waitForServer_finish ==
  /\ pc = "wfs_after"
  /\ attempt' = 0
  /\ sshAttempts' = 0
  /\ reachStatus' = StatusNull
  /\ IF attempt = maxAttempts
     THEN Fail("Timeout waiting for SSH access") /\ UNCHANGED sshCalls
     ELSE \E ci \in {0, 1}, apt \in {0, 255} :
            /\ sshCalls' = {SshCall("cloud-init status --wait", ci, TRUE),
                            SshCall("apt lock wait", apt, FALSE)}
            /\ IF runSSHCommandThrows(ci, TRUE) \/ runSSHCommandThrows(apt, FALSE)
               THEN Fail("RemoteCommandFailed")
               ELSE Return("sync")
  /\ UNCHANGED <<cfgVars, exitCode, builderVars, guardVars, monVars, retVars,
                 stagesStarted, sigVars, provVars, blips, jobVars>>

syncProject ==
  /\ pc = "sync"
  /\ stagesStarted' = Append(stagesStarted, "syncProject")
  /\ \E status \in {0, 1} :
       IF status # 0 THEN Fail("Command rsync failed") ELSE Return("build")
  /\ UNCHANGED <<cfgVars, exitCode, builderVars, guardVars, wfsVars, monVars, retVars,
                 sigVars, provVars, chanVars, jobVars>>

\* variant: the submission is tried again
runBuild_throws_Retries == pc' = "build" /\ UNCHANGED <<error, stagesDone>>

\* runSSHCommand(script) threw: the error leaves runBuild and run()
runBuild_throws == Fail("RemoteCommandFailed")

runBuild ==
  /\ pc = "build"
  /\ stagesStarted' = Append(stagesStarted, "runBuild")
  /\ IF Falsy(outputTemplate(profile, config))
     THEN /\ Fail("No artifact path defined for this profile")
          /\ UNCHANGED <<remoteOutputPath, sshCalls, jobVars>>
     ELSE /\ remoteOutputPath' = interpolateTemplate(outputTemplate(profile, config), profile, config)
          /\ scriptsSubmitted' = scriptsSubmitted + 1
          /\ \E status \in {0, 1, 255}, launched \in BOOLEAN :
               \* status 0: the script reached its detach point; status 1: it
               \* stopped (set -e) before it; 255: the connection dropped, before
               \* or after the launch
               /\ status = 0 => launched
               /\ status = 1 => ~launched
               /\ sshCalls' = {SshCall("build script", status, FALSE)}
               /\ jobPhase' = IF launched THEN "starting" ELSE "none"
               /\ IF runSSHCommandThrows(status, FALSE)
                  THEN runBuild_throws
                  ELSE Return("mon_enter")
          /\ UNCHANGED remoteFiles
  /\ UNCHANGED <<cfgVars, exitCode, serverId, serverIp, artifactName, guardVars, wfsVars,
                 monVars, retVars, sigVars, provVars, blips>>

NumCandidates == Len(config.artifactCandidates)

\* test -f on the remote host
TestFile(path) == IF path \in remoteFiles THEN 0 ELSE 1

\* test -f remoteStatusFile: the sentinel is written by the last statement of the job
StatusFileTest == IF jobPhase = "done" THEN 0 ELSE 1

\* pgrep -f 'eas-cli build' || pgrep -f 'npm install' || pgrep -f 'gradlew'
TrackedProcessTest == IF jobPhase \in {"npm", "eas"} THEN 0 ELSE 1

monitorBuild_enter ==
  /\ pc = "mon_enter"
  /\ stagesStarted' = Append(stagesStarted, "monitorBuild")
  /\ pc' = "mon_status"
  /\ UNCHANGED <<cfgVars, error, exitCode, builderVars, guardVars, wfsVars, monVars,
                 retVars, stagesDone, sigVars, provVars, chanVars, jobVars>>

\* top of a tick: the status file test
monitorBuild_status ==
  /\ pc = "mon_status"
  /\ \E st \in Observed(StatusFileTest) :
       /\ blips' = Blip(StatusFileTest, st)
       /\ sshCalls' = {SshCall("test -f status", st, TRUE)}
       /\ obs' = [status |-> st, procs |-> StatusNull, misses |-> 0, artifact |-> FALSE]
       /\ IF st = 0 THEN Return("ret_enter")
          ELSE pc' = "mon_procs" /\ UNCHANGED <<error, stagesDone>>
  /\ UNCHANGED <<cfgVars, exitCode, builderVars, guardVars, wfsVars, candIdx,
                 logTailFetched, retVars, stagesStarted, sigVars, provVars, jobVars>>

\* the tracked process test; when one runs, the short log tail and the delay
monitorBuild_processes ==
  /\ pc = "mon_procs"
  /\ \E st \in Observed(TrackedProcessTest) :
       /\ blips' = Blip(TrackedProcessTest, st)
       /\ obs' = [obs EXCEPT !.procs = st]
       /\ IF st # 0
          THEN /\ sshCalls' = {SshCall("pgrep", st, TRUE)}
               /\ candIdx' = 1
               /\ pc' = IF 1 <= NumCandidates THEN "mon_cand" ELSE "mon_crash"
          ELSE /\ sshCalls' = {SshCall("pgrep", st, TRUE), SshCall("tail -3", 0, TRUE)}
               /\ pc' = "mon_sleep"
               /\ UNCHANGED candIdx
  /\ UNCHANGED <<cfgVars, error, exitCode, builderVars, guardVars, wfsVars,
                 logTailFetched, retVars, stagesStarted, stagesDone, sigVars, provVars,
                 jobVars>>

\* variant: the tick ends in the delay
AfterLastMiss_Sleeps == "mon_sleep"

\* where the candidate loop of a tick goes after the last miss
AfterLastMiss == "mon_crash"

\* variant: any outcome of the test counts as found
ArtifactCheck_Any(st) == TRUE

\* candidateResult.status === 0
ArtifactCheck(st) == st = 0

\* one iteration of the candidate loop of a tick
monitorBuild_candidate ==
  /\ pc = "mon_cand"
  /\ LET path == RemoteCandidate(candIdx, profile, config) IN
     \E st \in Observed(TestFile(path)) :
       /\ blips' = Blip(TestFile(path), st)
       /\ sshCalls' = {SshCall("test -f candidate", st, TRUE)}
       /\ IF ArtifactCheck(st)
          THEN /\ obs' = [obs EXCEPT !.artifact = TRUE]
               /\ Return("ret_enter")
               /\ UNCHANGED candIdx
          ELSE /\ candIdx' = candIdx + 1
               /\ obs' = [obs EXCEPT !.misses = @ + 1]
               /\ pc' = IF candIdx + 1 <= NumCandidates THEN "mon_cand" ELSE AfterLastMiss
               /\ UNCHANGED <<error, stagesDone>>
  /\ UNCHANGED <<cfgVars, exitCode, builderVars, guardVars, wfsVars,
                 logTailFetched, retVars, stagesStarted, sigVars, provVars, jobVars>>

\* no status file, no tracked process, no candidate: log tail, then throw
monitorBuild_crashed ==
  /\ pc = "mon_crash"
  /\ \E st \in {0, 1} : sshCalls' = {SshCall("tail -100", st, TRUE)}
  /\ logTailFetched' = TRUE
  /\ Fail("Remote build failed")
  /\ UNCHANGED <<cfgVars, exitCode, builderVars, guardVars, wfsVars, candIdx, obs,
                 retVars, stagesStarted, sigVars, provVars, blips, jobVars>>

\* the 30 s timer fires: next tick
monitorBuild_wake ==
  /\ pc = "mon_sleep"
  /\ sigPending = "none"
  /\ pc' = "mon_status"
  /\ UNCHANGED <<cfgVars, error, exitCode, builderVars, guardVars, wfsVars, monVars,
                 retVars, stagesStarted, stagesDone, sigVars, provVars, chanVars, jobVars>>

retrieveArtifact_enter ==
  /\ pc = "ret_enter"
  /\ stagesStarted' = Append(stagesStarted, "retrieveArtifact")
  /\ candIdx' = 1
  /\ pc' = "ret_check"
  /\ UNCHANGED <<cfgVars, error, exitCode, builderVars, guardVars, wfsVars, obs,
                 logTailFetched, retVars, stagesDone, sigVars, provVars, chanVars, jobVars>>

\* variant: the list is walked from its end
RetrieveCandidate_Reversed(i) ==
  interpolateTemplate(config.artifactCandidates[Len(config.artifactCandidates) + 1 - i], profile, config)

\* for (const candidate of this.artifactCandidates): the i-th candidate visited
RetrieveCandidate(i) == interpolateTemplate(config.artifactCandidates[i], profile, config)

\* variant: the function returns without an error
retrieveArtifact_notFound_Silent == Return("resolved")

\* past the last candidate
retrieveArtifact_notFound == Fail("No build artifact was found on the remote server")

\* one iteration of the candidate loop; on a hit the name is assigned and
\* copyArtifact runs; past the last candidate the error is thrown
retrieveArtifact_candidate ==
  /\ pc = "ret_check"
  /\ IF candIdx > NumCandidates
     THEN /\ retrieveArtifact_notFound
          /\ UNCHANGED <<artifactName, candIdx, retVars, chanVars>>
     ELSE LET path == RetrieveCandidate(candIdx) IN
          \E st \in Observed(TestFile(path)) :
            /\ blips' = Blip(TestFile(path), st)
            /\ sshCalls' = {SshCall("test -f candidate", st, TRUE)}
            /\ retChecks' = Append(retChecks, st)
            /\ IF st = 0
               THEN /\ \E now \in Clocks :
                         artifactName' = <<"build-">> \o timestamp(now) \o extname(path)
                    /\ copyCalls' = copyCalls + 1
                    /\ copied' = path
                    /\ UNCHANGED candIdx
                    /\ \E scp \in {0, 1} :
                         IF scp # 0 THEN Fail("Command scp failed") ELSE Return("resolved")
               ELSE /\ candIdx' = candIdx + 1
                    /\ pc' = "ret_check"
                    /\ UNCHANGED <<artifactName, copied, copyCalls, error, stagesDone>>
  /\ UNCHANGED <<cfgVars, exitCode, serverId, serverIp, remoteOutputPath, guardVars,
                 wfsVars, obs, logTailFetched, stagesStarted, sigVars, provVars, jobVars>>

\* ------------------------------------------------------- the detached job
\* nohup bash -c ' source env; npm install; OUTPUT_FILE=...; buildCommand;
\*                 echo BUILD_COMPLETE > statusFile ' &
\* Phases: starting -> npm -> gap -> eas -> post -> done, or dead (set -e).
procVars == <<pc, error, exitCode, builderVars, guardVars, wfsVars, monVars, retVars,
              stagesStarted, stagesDone, sigVars, provVars, chanVars>>

\* the paths the configured build command may leave a file at
WritablePaths ==
  {remoteOutputPath} \cup {RemoteCandidate(i, profile, config) : i \in 1..NumCandidates}

JobAdvance(from, to) ==
  /\ serverExists
  /\ pc \notin {"exiting", "exited"}
  /\ jobPhase = from
  /\ jobPhase' = to
  /\ UNCHANGED <<cfgVars, procVars, remoteFiles, scriptsSubmitted>>

Job_npmInstallStarts == JobAdvance("starting", "npm")

Job_npmInstallExits == JobAdvance("npm", "gap")

Job_buildStarts == JobAdvance("gap", "eas")

Job_buildExits ==
  /\ serverExists
  /\ pc \notin {"exiting", "exited"}
  /\ jobPhase = "eas"
  /\ jobPhase' = "post"
  /\ \E written \in SUBSET WritablePaths : remoteFiles' = remoteFiles \cup written
  /\ UNCHANGED <<cfgVars, procVars, scriptsSubmitted>>

Job_writesStatus == JobAdvance("post", "done")

\* npm install or the build command exits non-zero: set -e ends the job
Job_fails ==
  /\ serverExists
  /\ pc \notin {"exiting", "exited"}
  /\ jobPhase \in {"npm", "eas"}
  /\ jobPhase' = "dead"
  /\ UNCHANGED <<cfgVars, procVars, remoteFiles, scriptsSubmitted>>

\* ------------------------------------------------- process-level events
\* The operating system delivers SIGINT or SIGTERM to the node process.
Signal ==
  /\ cleanupRegistered
  /\ pc \notin {"exiting", "exited"}
  /\ sigPending = "none"
  /\ sigCount < MaxSignals
  /\ \E sig \in {"SIGINT", "SIGTERM"} : sigPending' = sig
  /\ sigCount' = sigCount + 1
  /\ stagesAtSignal' = Len(stagesStarted)
  /\ UNCHANGED <<cfgVars, pc, error, exitCode, builderVars, guardVars, wfsVars, monVars,
                 retVars, stagesStarted, stagesDone, provVars, chanVars, jobVars>>

\* Positions at which the event loop runs and a pending signal is
\* dispatched: the two timer delays, and the return to the loop when
\* run() has settled. Synchronous child processes block the loop.
LoopRuns == pc \in {"wfs_sleep", "mon_sleep", "resolved", "rejected"}

\* process.on("SIGINT" / "SIGTERM"): cleanupHandler(); process.exit(1)
SignalHandler ==
  /\ sigPending # "none"
  /\ handlers[sigPending] > 0
  /\ LoopRuns
  /\ cleanupHandler
  /\ exitCode' = 1
  /\ pc' = "exiting"
  /\ UNCHANGED <<cfgVars, error, builderVars, guardVars, wfsVars, monVars, retVars,
                 stagesStarted, stagesDone, sigVars, createCalls, createLocals, chanVars, jobVars>>

\* variant: something keeps the event loop alive and the process stays
NormalExit_Hangs ==
  /\ pc = "resolved"
  /\ UNCHANGED vars

\* run() resolved and nothing keeps the event loop alive
NormalExit ==
  /\ pc = "resolved"
  /\ exitCode' = 0
  /\ pc' = "exiting"
  /\ UNCHANGED <<cfgVars, error, builderVars, guardVars, wfsVars, monVars, retVars,
                 stagesStarted, stagesDone, sigVars, provVars, chanVars, jobVars>>

\* runCli logs the error and rethrows; its caller (the executable, not part
\* of the sources at hand) ends the process with a failure status
FailureExit ==
  /\ pc = "rejected"
  /\ exitCode' = 1
  /\ pc' = "exiting"
  /\ UNCHANGED <<cfgVars, error, builderVars, guardVars, wfsVars, monVars, retVars,
                 stagesStarted, stagesDone, sigVars, provVars, chanVars, jobVars>>

\* the rethrown error reaches the process as an uncaught error:
\* process.on("uncaughtException"): logError; cleanupHandler(); process.exit(1)
UncaughtException ==
  /\ pc = "rejected"
  /\ handlers.uncaughtException > 0
  /\ cleanupHandler
  /\ exitCode' = 1
  /\ pc' = "exiting"
  /\ UNCHANGED <<cfgVars, error, builderVars, guardVars, wfsVars, monVars, retVars,
                 stagesStarted, stagesDone, sigVars, createCalls, createLocals, chanVars, jobVars>>

\* an error thrown by an 'exit' listener replaces the exit status
ListenerThrew == Len(deletes') > Len(deletes) /\ deletes'[Len(deletes')].threw

\* process 'exit' event: the registered exit listener is cleanupHandler
EmitExit ==
  /\ pc = "exiting"
  /\ IF handlers.exit > 0 THEN cleanupHandler ELSE UNCHANGED <<deletes, serverExists>>
  /\ exitCode' = IF ListenerThrew THEN 7 ELSE exitCode
  /\ pc' = "exited"
  /\ UNCHANGED <<cfgVars, error, builderVars, guardVars, wfsVars, monVars,
                 retVars, stagesStarted, stagesDone, sigVars, createCalls, createLocals, chanVars, jobVars>>

Next ==
  \/ registerCleanup
  \/ checkPrerequisites
  \/ createServer
  \/ waitForServer_enter
  \/ waitForServer_attempt
  \/ waitForServer_wake
  \/ waitForServer_finish
  \/ syncProject
  \/ runBuild
  \/ monitorBuild_enter
  \/ monitorBuild_status
  \/ monitorBuild_processes
  \/ monitorBuild_candidate
  \/ monitorBuild_crashed
  \/ monitorBuild_wake
  \/ retrieveArtifact_enter
  \/ retrieveArtifact_candidate
  \/ Job_npmInstallStarts
  \/ Job_npmInstallExits
  \/ Job_buildStarts
  \/ Job_buildExits
  \/ Job_writesStatus
  \/ Job_fails
  \/ Signal
  \/ SignalHandler
  \/ NormalExit
  \/ FailureExit
  \/ UncaughtException
  \/ EmitExit

Spec == Init /\ [][Next]_vars

\* --------------------------------------------------------------- progress
\* the node process: it executes its next statement, its timers fire, and
\* it exits when nothing is left to do
ProcessStep ==
  \/ registerCleanup
  \/ checkPrerequisites
  \/ createServer
  \/ waitForServer_enter
  \/ waitForServer_attempt
  \/ waitForServer_wake
  \/ waitForServer_finish
  \/ syncProject
  \/ runBuild
  \/ monitorBuild_enter
  \/ monitorBuild_status
  \/ monitorBuild_processes
  \/ monitorBuild_candidate
  \/ monitorBuild_crashed
  \/ monitorBuild_wake
  \/ retrieveArtifact_enter
  \/ retrieveArtifact_candidate
  \/ SignalHandler
  \/ NormalExit
  \/ FailureExit
  \/ UncaughtException
  \/ EmitExit

\* the remote shell runs the next command of the detached job
JobStep ==
  \/ Job_npmInstallStarts
  \/ Job_npmInstallExits
  \/ Job_buildStarts
  \/ Job_buildExits
  \/ Job_writesStatus

\* one run with the default configuration
InitLive ==
  /\ Init
  /\ config = DEFAULT_CONFIG
  /\ env = NoEnv

SpecLive == InitLive /\ [][Next]_vars /\ WF_vars(ProcessStep) /\ WF_vars(JobStep)

\* ------------------------------------- the builder's methods called alone
PlaceholderNames == {"PROFILE", "REMOTE_PROJECT_DIR", "REMOTE_ENV_FILE", "REMOTE_LOG_PATH",
                     "REMOTE_STATUS_FILE"}

\* templates built of text and known placeholders only
Templates ==
  {PH(n) : n \in PlaceholderNames}
    \cup {P_APK, T_OUT_PROFILE,
          PH("REMOTE_PROJECT_DIR") \o <<"/out-">> \o PH("PROFILE") \o <<".apk">>}

UnitProfiles == Profiles \cup {<<"rc", "$", "&">>}

\* a build command written with the two tokens
CMD_TOKENS ==
  <<"eas build --profile ">> \o PH("PROFILE") \o <<" --output ">> \o PH("OUTPUT_FILE")

\* remote paths and build commands a configuration file may give
UnitOverlays ==
  { [ x \in {} |-> <<>> ],
    [ remoteLogPath |-> PH("REMOTE_PROJECT_DIR") \o <<"/build", ".log">> ],
    [ remoteProjectDir |-> <<"/root/">> \o PH("PROFILE") ],
    [ buildCommand |-> CMD_TOKENS ],
    [ buildCommand |-> <<>> ],
    [ buildCommand |-> CMD_TOKENS, artifactForProfile |-> ScenarioMapping ] }

UnitConfigs == { deepMerge(DEFAULT_CONFIG, o) : o \in UnitOverlays }

\* ------------------------------------------------------------ the CLI
\* arg.startsWith("-") for the arguments of this model
DashArgs == {"--help", "-h", "--profile", "-p", "--env-folder", "-e", "--config"}

ParseResult(kind, prof, folder, err) ==
  [kind |-> kind, profile |-> prof, envFolder |-> folder, error |-> err]

RECURSIVE parseArgsLoop(_, _, _, _, _)
\* the for loop of parseArgs from `index` on (1-based)
parseArgsLoop(args, index, prof, folder, usedProfile) ==
  IF index > Len(args) THEN ParseResult("return", prof, folder, "none")
  ELSE LET arg == args[index]
           hasValue == index + 1 <= Len(args) /\ args[index + 1] # ""
                         /\ args[index + 1] \notin DashArgs
       IN IF arg \in {"--help", "-h"} THEN ParseResult("exit", prof, folder, "none")
          ELSE IF arg \in {"--profile", "-p"}
          THEN IF hasValue
               THEN parseArgsLoop(args, index + 2, args[index + 1], folder, TRUE)
               ELSE ParseResult("throw", prof, folder, "Missing profile")
          ELSE IF arg \in {"--env-folder", "-e"}
          THEN IF hasValue
               THEN parseArgsLoop(args, index + 2, prof, args[index + 1], usedProfile)
               ELSE ParseResult("throw", prof, folder, "Missing env folder")
          ELSE IF ~usedProfile /\ arg \notin DashArgs
          THEN parseArgsLoop(args, index + 1, arg, folder, TRUE)
          ELSE parseArgsLoop(args, index + 1, prof, folder, usedProfile)

\* parseArgs(argv): argv.slice(2), profile "preview", envFolder ".env"
parseArgs(av) == parseArgsLoop(SubSeq(av, 3, Len(av)), 1, "preview", ".env", FALSE)

IndexOf(s, atom) ==
  IF \E i \in 1..Len(s) : s[i] = atom
  THEN CHOOSE i \in 1..Len(s) : s[i] = atom /\ \A j \in 1..(i - 1) : s[j] # atom
  ELSE 0

\* value.replace(/\\"/g, '"').replace(/\\n/g, "\n")
Unescape(v) ==
  LET quotes == [i \in 1..Len(v) |-> IF v[i] = "\\\"" THEN "\"" ELSE v[i]]
  IN [i \in 1..Len(v) |-> IF quotes[i] = "\\n" THEN "\n" ELSE quotes[i]]

Unquoted(value) ==
  IF value # <<>> /\ Head(value) = "\"" /\ value[Len(value)] = "\""
  THEN Unescape(SubSeq(value, 2, Len(value) - 1))
  ELSE IF value # <<>> /\ Head(value) = "'" /\ value[Len(value)] = "'"
  THEN SubSeq(value, 2, Len(value) - 1)
  ELSE value

NoPair == [ok |-> FALSE, key |-> <<>>, value |-> <<>>]

\* parseEnvLine: null for blank lines, comments, lines without "=" and lines
\* with an empty key
parseEnvLine(line) ==
  LET trimmed == Trim(line)
      equalsIndex == IndexOf(trimmed, "=")
      key == Trim(SubSeq(trimmed, 1, equalsIndex - 1))
      value == Trim(SubSeq(trimmed, equalsIndex + 1, Len(trimmed)))
  IN IF trimmed = <<>> \/ Head(trimmed) = "#" THEN NoPair
     ELSE IF equalsIndex = 0 THEN NoPair
     ELSE IF key = <<>> THEN NoPair
     ELSE [ok |-> TRUE, key |-> key, value |-> Unquoted(value)]

\* a.name.localeCompare(b.name) for the names of this model
NameRank == ("a.env" :> 1 @@ "b.env" :> 2 @@ "sub" :> 3)

\* .filter(isFile).sort(by name)
SortedFiles(entries) ==
  LET files == {i \in 1..Len(entries) : entries[i].isFile}
  IN [k \in 1..Cardinality(files) |->
       entries[CHOOSE i \in files :
         Cardinality({j \in files : NameRank[entries[j].name] < NameRank[entries[i].name]})
           = k - 1]]

\* result[parsed.key] = parsed.value; a key is the one atom of its text
Assign(result, pair) ==
  [k \in DOMAIN result \cup {pair.key[1]} |-> IF k = pair.key[1] THEN pair.value ELSE result[k]]

RECURSIVE readLines(_, _)
readLines(result, lines) ==
  IF lines = <<>> THEN result
  ELSE LET parsed == parseEnvLine(Head(lines))
       IN readLines(IF parsed.ok THEN Assign(result, parsed) ELSE result, Tail(lines))

RECURSIVE readFiles(_, _)
readFiles(result, files) ==
  IF files = <<>> THEN result
  ELSE readFiles(readLines(result, Head(files).lines), Tail(files))

loadEnvFromFolder(entries) == readFiles(NoEnv, SortedFiles(entries))

\* variant: loaded values replace what the process environment had
applyLoaded_Overrides(penv, loaded) ==
  [k \in DOMAIN penv \cup DOMAIN loaded |-> IF k \in DOMAIN loaded THEN loaded[k] ELSE penv[k]]

\* runCli: if (!(key in process.env)) process.env[key] = value
applyLoaded(penv, loaded) ==
  [k \in DOMAIN penv \cup DOMAIN loaded |-> IF k \in DOMAIN penv THEN penv[k] ELSE loaded[k]]

\* the configuration file on disk and what loadConfig makes of it
ConfigPath == "htzbuild.config.json"
ConfigFile == [ artifactCandidates |-> <<P_AAB, P_APK>> ]
loadConfig(configFileOption) ==
  IF configFileOption = ConfigPath THEN deepMerge(DEFAULT_CONFIG, ConfigFile) ELSE DEFAULT_CONFIG

Argvs ==
  { <<"node", "htzbuild">> \o a :
      a \in { <<>>, <<"production">>, <<"--config", ConfigPath>>,
              <<"--config", ConfigPath, "production">>, <<"-p", "production">>,
              <<"--profile">>, <<"-e", "envs">>, <<"--help">>,
              <<"--env-folder", "envs", "--config", ConfigPath>> } }

LINE_KEY_DQ == <<"KEY", "=", "\"", "va", "\\n", "l", "\"">>
LINE_KEY_PLAIN == <<"KEY", "=", "plain">>
LINE_COMMENT == <<"#", " ", "KEY", "=", "no">>
LINE_SQ == <<" ", "OTHER", " ", "=", " ", "'", "single", "'">>
LINE_TOKEN == <<"EXPO_TOKEN", "=", "s3cr3t">>
LINE_NOEQ == <<"export">>
LINE_ESC == <<"SAY", "=", "\"", "say ", "\\\"", "hi", "\\\"", "\"">>

FILE_A == [name |-> "a.env", isFile |-> TRUE, lines |-> <<LINE_COMMENT, LINE_KEY_DQ, LINE_SQ>>]
FILE_B == [name |-> "b.env", isFile |-> TRUE, lines |-> <<LINE_KEY_PLAIN>>]
FILE_A2 == [name |-> "a.env", isFile |-> TRUE,
            lines |-> <<LINE_KEY_PLAIN, <<>>, LINE_KEY_DQ, LINE_TOKEN, LINE_NOEQ, LINE_ESC>>]
DIR_SUB == [name |-> "sub", isFile |-> FALSE, lines |-> <<>>]

\* what readdirSync may return, in directory order
Folders == { <<FILE_A, FILE_B>>, <<FILE_B, FILE_A>>, <<FILE_A2>>, <<DIR_SUB, FILE_B, FILE_A2>> }

PreEnvs == { NoEnv, ("KEY" :> <<"preset">>), ("KEY" :> <<>> @@ "EXPO_TOKEN" :> <<"it's">>) }

\* either new RemoteBuilder(profile, env, config) by a caller, run() not
\* called, or the start of runCli(process.argv)
InitUnits ==
  /\ InitFields
  /\ NoUnits
  /\ \/ /\ profile \in UnitProfiles
        /\ config \in UnitConfigs
        /\ env \in UnitEnvs
        /\ pc = "constructed"
        /\ NoCli
     \/ /\ profile = Null
        /\ config = DEFAULT_CONFIG
        /\ env = NoEnv
        /\ pc = "cli"
        /\ argv \in Argvs
        /\ parsedArgs = Null
        /\ fsFolder \in {".env", "envs"}
        /\ dirEntries \in Folders
        /\ loadedEnv = NoEnv
        /\ preEnv \in PreEnvs
        /\ processEnv = preEnv

CliFrame ==
  UNCHANGED <<tplIn, tplOut, tplAgain, script, registerCalls, argv, fsFolder, dirEntries, preEnv, exitCode,
              builderVars, guardVars, wfsVars, monVars, retVars, stagesStarted, stagesDone,
              sigVars, provVars, chanVars, jobVars>>

runCli_parseArgs ==
  /\ pc = "cli"
  /\ LET r == parseArgs(argv)
     IN /\ parsedArgs' = r
        /\ pc' = CASE r.kind = "return" -> "cli_load"
                    [] r.kind = "exit" -> "cli_help"
                    [] OTHER -> "rejected"
        /\ error' = r.error
  /\ UNCHANGED <<profile, config, env, loadedEnv, processEnv>>
  /\ CliFrame

runCli_loadEnv ==
  /\ pc = "cli_load"
  /\ IF parsedArgs.envFolder # fsFolder
     THEN pc' = "rejected" /\ error' = "Env folder not found" /\ UNCHANGED loadedEnv
     ELSE pc' = "cli_apply" /\ loadedEnv' = loadEnvFromFolder(dirEntries) /\ UNCHANGED error
  /\ UNCHANGED <<profile, config, env, parsedArgs, processEnv>>
  /\ CliFrame

runCli_applyEnv ==
  /\ pc = "cli_apply"
  /\ processEnv' = applyLoaded(processEnv, loadedEnv)
  /\ pc' = "cli_new"
  /\ UNCHANGED <<profile, config, env, parsedArgs, loadedEnv, error>>
  /\ CliFrame

\* new RemoteBuilder(profile, { ...process.env }): no config argument
runCli_construct ==
  /\ pc = "cli_new"
  /\ profile' = <<parsedArgs.profile>>
  /\ env' = processEnv
  /\ config' = DEFAULT_CONFIG
  /\ pc' = "constructed"
  /\ UNCHANGED <<parsedArgs, loadedEnv, processEnv, error>>
  /\ CliFrame

unit_interpolate ==
  /\ pc = "constructed"
  /\ \E t \in Templates :
       /\ tplIn' = t
       /\ tplOut' = interpolateTemplate(t, profile, config)
  /\ pc' = "interpolated"
  /\ UNCHANGED <<profile, config, env, tplAgain, script, registerCalls, cliVars, error, exitCode,
                 builderVars, guardVars, wfsVars,
                 monVars, retVars, stagesStarted, stagesDone, sigVars, provVars, chanVars,
                 jobVars>>

\* the result given to interpolateTemplate once more
unit_interpolateAgain ==
  /\ pc = "interpolated"
  /\ tplAgain' = interpolateTemplate(tplOut, profile, config)
  /\ pc' = "reinterpolated"
  /\ UNCHANGED <<profile, config, env, tplIn, tplOut, script, registerCalls, cliVars, error, exitCode, builderVars,
                 guardVars, wfsVars, monVars, retVars, stagesStarted, stagesDone, sigVars,
                 provVars, chanVars, jobVars>>

\* runBuild up to scriptLines.join: the script is composed, not yet sent
runBuild_compose ==
  /\ pc = "constructed"
  /\ ~Falsy(outputTemplate(profile, config))
  /\ script' = scriptLines(profile, env, config)
  /\ pc' = "composed"
  /\ UNCHANGED <<profile, config, env, tplIn, tplOut, tplAgain, registerCalls, cliVars, error, exitCode, builderVars,
                 guardVars, wfsVars, monVars, retVars, stagesStarted, stagesDone, sigVars,
                 provVars, chanVars, jobVars>>

\* registerCleanup() called on the constructed builder, possibly again
unit_registerCleanup ==
  /\ pc = "constructed"
  /\ registerCalls < MaxRegisterCalls
  /\ registerCleanup_call
  /\ registerCalls' = registerCalls + 1
  /\ UNCHANGED <<profile, config, env, tplIn, tplOut, tplAgain, script, cliVars, pc, error,
                 exitCode, builderVars, wfsVars, monVars, retVars, stagesStarted, stagesDone,
                 sigVars, provVars, chanVars, jobVars>>

NextUnits ==
  \/ unit_registerCleanup
  \/ runCli_parseArgs
  \/ runCli_loadEnv
  \/ runCli_applyEnv
  \/ runCli_construct
  \/ unit_interpolate
  \/ unit_interpolateAgain
  \/ runBuild_compose

SpecUnits == InitUnits /\ [][NextUnits]_vars

\* ================================================================ claims
HasPlaceholder(s) ==
  \E i \in 1..(Len(s) - 3), n \in PlaceholderNames : SubSeq(s, i, i + 3) = PH(n)

\* C12: interpolating a template made of known placeholders leaves no
\* placeholder token in the result, and interpolating the result again
\* returns it unchanged, whatever the remote paths and the profile.
C12_TotalIdempotent ==
  /\ pc \in {"interpolated", "reinterpolated"} => ~HasPlaceholder(tplOut)
  /\ pc = "reinterpolated" => tplAgain = tplOut

RECURSIVE IsPrefix(_, _)
IsPrefix(a, b) ==
  IF a = <<>> THEN TRUE
  ELSE IF b = <<>> THEN FALSE
  ELSE Head(a) = Head(b) /\ IsPrefix(Tail(a), Tail(b))

\* indices of the candidates that exist on the remote host
ExistingIdx == {i \in 1..NumCandidates : RemoteCandidate(i, profile, config) \in remoteFiles}

FirstExisting ==
  RemoteCandidate(CHOOSE i \in ExistingIdx : \A j \in ExistingIdx : i <= j, profile, config)

C2_DeleteAtMostOnce == Len(deletes) <= 1

\* C3: the stages start in the order of run(), each one only after the
\* previous one has returned normally, and none after a failure or once
\* the process is exiting.
C3_StagesInOrder ==
  /\ [](IsPrefix(stagesStarted, StageOrder))
  /\ [][stagesStarted' # stagesStarted =>
          /\ error = "none"
          /\ stagesDone = Len(stagesStarted)
          /\ pc \notin {"rejected", "resolved", "exiting", "exited"}]_vars

C3_Witness == stagesStarted = StageOrder /\ stagesDone = 7 /\ pc = "resolved"

\* C4: a monitoring tick that saw no status file, no tracked process and no
\* artifact candidate ends in the 'Remote build failed' error, with the log
\* tail fetched first, and never in the delay.
CrashCase ==
  /\ obs.status \notin {0, StatusNull}
  /\ obs.procs \notin {0, StatusNull}
  /\ obs.misses = NumCandidates

C4_CrashEndsMonitoring ==
  /\ [](CrashCase => (pc = "mon_crash" \/ (error = "Remote build failed" /\ logTailFetched)))
  /\ [][(pc = "mon_crash" /\ pc' # pc) =>
          (pc' = "rejected" /\ error' = "Remote build failed" /\ logTailFetched')]_vars

C4_Witness ==
  /\ error = "Remote build failed"
  /\ logTailFetched
  /\ jobPhase = "dead"
  /\ blips = 0
  /\ ExistingIdx = {}

C6_NoCandidateFails ==
  (Len(stagesStarted) = 7 /\ pc # "ret_check" /\ ExistingIdx = {}) =>
    /\ error = "No build artifact was found on the remote server"
    /\ copyCalls = 0
    /\ copied = Null
    /\ artifactName = Null
    /\ pc # "resolved"
    /\ stagesDone < 7

C6_Witness ==
  /\ error = "No build artifact was found on the remote server"
  /\ jobPhase = "done"
  /\ ExistingIdx = {}

\* C7: the reachability poll makes at most 60 attempts, and on leaving the
\* loop the timeout error is raised iff 60 attempts were made and the last
\* one failed.
C7_SixtyAttempts ==
  /\ [](sshAttempts <= 60)
  /\ [](pc = "wfs_after" => (reachStatus = 0 <=> attempt = sshAttempts - 1))
  /\ [][(pc = "wfs_after" /\ pc' # pc) =>
          ((error' = "Timeout waiting for SSH access") <=> (sshAttempts = 60 /\ reachStatus # 0))]_vars

C7_Witness == pc = "wfs_after" /\ sshAttempts = 60 /\ reachStatus = 0

\* C8: an ssh call throws exactly when its status is non-zero and
\* allowFailure is false, and the run fails with the command error exactly
\* when one of the calls of the step threw.
C8_ThrowsIffNotAllowed ==
  /\ \A c \in sshCalls : c.threw <=> (c.status # 0 /\ ~c.allowFailure)
  /\ (error = "RemoteCommandFailed") <=> (\E c \in sshCalls : c.status # 0 /\ ~c.allowFailure)

C8_Witness ==
  \E c1, c2 \in sshCalls :
    /\ c1.allowFailure /\ c1.status # 0 /\ ~c1.threw
    /\ ~c2.allowFailure /\ c2.status # 0 /\ c2.threw
    /\ error = "RemoteCommandFailed"

\* C9: once SIGINT or SIGTERM has been delivered no further stage is
\* started, and the process exits with a non-zero status.
C9_SignalStopsRun ==
  sigPending # "none" =>
    /\ Len(stagesStarted) = stagesAtSignal
    /\ pc = "exited" => exitCode # 0

Contains(line, atom) == \E i \in 1..Len(line) : line[i] = atom

LinesWith(atom) == {k \in 1..Len(script) : Contains(script[k], atom)}

\* the line ends in: >> remoteEnvFile
AppendsToEnvFile(line) ==
  LET n == Len(config.remoteEnvFile)
  IN /\ Len(line) > n
     /\ SubSeq(line, Len(line) - n + 1, Len(line)) = config.remoteEnvFile
     /\ line[Len(line) - n] = " >> "

\* C13: with EXPO_TOKEN present the composed script holds the base64 text
\* and never the raw value, and the one line that decodes it is the line
\* appending the export to the remote environment file; with the token
\* absent no line exports it.
C13_TokenOnlyEncoded ==
  pc = "composed" =>
    LET tok == Lookup(env, "EXPO_TOKEN")
    IN IF ~Falsy(tok)
       THEN /\ LinesWith(tok[1]) = {}
            /\ Cardinality(LinesWith(Base64Table[tok[1]])) = 1
            /\ LinesWith("base64 -d") = LinesWith(Base64Table[tok[1]])
            /\ LinesWith("export EXPO_TOKEN=") = LinesWith("base64 -d")
            /\ \A k \in LinesWith("base64 -d") : AppendsToEnvFile(script[k])
       ELSE /\ LinesWith("export EXPO_TOKEN=") = {}
            /\ LinesWith("base64 -d") = {}

C13_Witness ==
  /\ pc = "composed"
  /\ Lookup(env, "EXPO_TOKEN") = <<"it's">>
  /\ LinesWith("aXQncw==") # {}

\* C14: when checkPrerequisites fails, the run has issued and will issue
\* no server create, no remote command, no copy and no server delete.
C14_PrereqFailsBeforeRemote ==
  error = "PrerequisiteMissing" =>
    /\ createCalls = 0
    /\ ~serverExists
    /\ serverId = Null
    /\ deletes = <<>>
    /\ sshCalls = {}
    /\ sshAttempts = 0
    /\ scriptsSubmitted = 0
    /\ copyCalls = 0
    /\ jobPhase = "none"
    /\ stagesStarted = <<"checkPrerequisites">>

C14_Witness ==
  /\ error = "PrerequisiteMissing"
  /\ pc = "exited"
  /\ deletes = <<>>

\* C15: createServer passes HETZNER_SSH_KEY to the create command when it is
\* set, otherwise the first key of the provider's listing; when neither gives
\* a key it fails with the no-SSH-key error, no create command is issued and
\* serverId stays null.
C15_SshKeyChoice ==
  createLocals # <<>> =>
    LET c == createLocals[1]
        envKey == Lookup(env, "HETZNER_SSH_KEY")
        listed == ~c.listing.threw /\ c.listing.lines # << <<>> >>
    IN /\ c.asked <=> envKey = Undef
       /\ ~c.asked => c.sshKeyName = <<"my-key">> /\ envKey = <<"my-key">> /\ createCalls = 1
       /\ c.asked /\ listed => c.sshKeyName = <<"key-a">> /\ createCalls = 1
       /\ c.asked /\ ~listed =>
            /\ error = "No SSH key found"
            /\ createCalls = 0
            /\ serverId = Null
            /\ ~serverExists
            /\ stagesDone = 1

C15_Witness ==
  /\ createLocals # <<>>
  /\ createLocals[1].asked
  /\ createLocals[1].sshKeyName = <<"key-a">>
  /\ serverExists

\* C16: a create response without the id field or without the IPv4 field
\* makes createServer fail with a response error; the run does not go on to
\* waitForServer with a missing identifier or address.
C16_InvalidResponseFails ==
  createLocals # <<>> /\ createLocals[1].response \in {"noId", "noIp"} =>
    /\ error \in {"Unable to parse server creation response",
                  "Unable to determine server IP address"}
    /\ stagesDone = 1
    /\ stagesStarted = <<"checkPrerequisites", "createServer">>

\* the create command returned a server object
Provisioned ==
  /\ createLocals # <<>>
  /\ createLocals[1].status = 0
  /\ createLocals[1].response \in {"full", "noId", "noIp"}

\* C19: serverId is non-null exactly while a provisioning call has succeeded
\* and no deletion of the instance has been performed; it is null again once
\* the cleanup callback has deleted the instance.
C19_IdIffLive ==
  serverId # Null <=> (Provisioned /\ \A i \in 1..Len(deletes) : deletes[i].status # 0)

\* monitorBuild returned normally
MonitorSucceeded == stagesDone >= 6

Max(S) == CHOOSE x \in S : \A y \in S : y <= x

\* the lines of a file that define key k
Defining(entry, k) ==
  {i \in 1..Len(entry.lines) :
     parseEnvLine(entry.lines[i]).ok /\ parseEnvLine(entry.lines[i]).key = <<k>>}

FilesDefining(k) ==
  {i \in 1..Len(dirEntries) : dirEntries[i].isFile /\ Defining(dirEntries[i], k) # {}}

\* the last line defining k in the alphabetically last file defining it
LastDefinition(k) ==
  LET f == dirEntries[CHOOSE i \in FilesDefining(k) :
             \A j \in FilesDefining(k) : NameRank[dirEntries[j].name] <= NameRank[dirEntries[i].name]]
  IN parseEnvLine(f.lines[Max(Defining(f, k))]).value

EnvKeys == {"KEY", "OTHER", "EXPO_TOKEN", "SAY", "#", "export"}

CliBuilt == pc = "constructed" /\ argv # <<>>

\* C17: the builder's environment holds, for every key, the value the
\* process environment had at start when the key was set there, otherwise
\* the value of the last line defining it in the alphabetically last file
\* defining it; a.env KEY="va\nl" with b.env KEY=plain gives plain, and a
\* double-quoted \n is a newline.
C17_EnvPrecedence ==
  CliBuilt =>
    /\ \A k \in EnvKeys :
         IF k \in DOMAIN preEnv THEN k \in DOMAIN env /\ env[k] = preEnv[k]
         ELSE IF FilesDefining(k) # {} THEN k \in DOMAIN env /\ env[k] = LastDefinition(k)
         ELSE k \notin DOMAIN env
    /\ preEnv = NoEnv /\ dirEntries \in {<<FILE_A, FILE_B>>, <<FILE_B, FILE_A>>}
         => env["KEY"] = <<"plain">> /\ env["OTHER"] = <<"single">>
    /\ preEnv = NoEnv /\ dirEntries = <<FILE_A2>>
         => env["KEY"] = <<"va", "\n", "l">> /\ env["SAY"] = <<"say ", "\"", "hi", "\"">>
    /\ preEnv = NoEnv /\ dirEntries = <<DIR_SUB, FILE_B, FILE_A2>> => env["KEY"] = <<"plain">>

C17_Witness ==
  /\ CliBuilt
  /\ preEnv = NoEnv
  /\ dirEntries = <<FILE_B, FILE_A>>
  /\ env["KEY"] = <<"plain">>

\* C18: `--config <path>` with no profile argument: the builder runs with the
\* configuration loaded from <path> over the defaults and with profile
\* 'preview'; the path is not taken as the profile.
C18_ConfigOption ==
  CliBuilt /\ SubSeq(argv, Len(argv) - 1, Len(argv)) = <<"--config", ConfigPath>> =>
    /\ profile = <<"preview">>
    /\ config = loadConfig(ConfigPath)

\* monitorBuild throws 'Remote build failed' in this step
RaisesBuildFailed == error # "Remote build failed" /\ error' = "Remote build failed"

\* C21: with no channel failure, 'Remote build failed' is raised only when
\* the remote job has stopped without success, never while it is alive
\* between tracked phases or already finished.
C21_FailedOnlyIfJobStopped ==
  [][RaisesBuildFailed /\ blips' = 0 => jobPhase' = "dead"]_vars

\* C22: on a Monitoring tick where a tracked process is running, the tick
\* goes on to the log tail and the delay even when the ssh call of the
\* process check itself fails: it never takes the 'no tracked process'
\* branch that leads to 'Remote build failed'.
C22_ChannelFailureNotCrash ==
  [][pc = "mon_procs" /\ jobPhase \in {"npm", "eas"} /\ pc' # pc => pc' = "mon_sleep"]_vars

\* the channel has been reliable: no ssh call dropped, the script
\* submission and the copy went through, the delete command succeeded
ReliableSoFar ==
  /\ blips = 0
  /\ \A c \in sshCalls : c.status # 255
  /\ error # "Command scp failed"
  /\ \A i \in 1..Len(deletes) : deletes[i].status = 0

\* the process check of a tick has just found nothing while the job was
\* alive before its build command
LookedBetweenPhases ==
  /\ pc \in {"mon_cand", "mon_crash"}
  /\ obs.misses = 0
  /\ jobPhase \in {"starting", "gap"}

\* the job as the claim supposes it: launched, a tracked process running
\* whenever the monitor looks before the build ends, no failing command,
\* an artifact at a candidate path once the build command has exited
JobAsSupposed ==
  /\ ~(error # "none" /\ jobPhase = "none")
  /\ ~LookedBetweenPhases
  /\ jobPhase # "dead"
  /\ jobPhase \in {"post", "done"} => ExistingIdx # {}

Done ==
  /\ pc = "exited"
  /\ stagesDone = 7
  /\ artifactName # Null
  /\ exitCode = 0

\* C23: with a reliable channel, no signal, fair scheduling and the job as
\* supposed, the run reaches Done with artifactName set and the instance
\* is deleted.
C23_EventuallyDoneAndDeleted ==
  [](ReliableSoFar /\ sigCount = 0 /\ JobAsSupposed)
    => <>(Done /\ deletes # <<>> /\ ~serverExists)

C23_Witness ==
  /\ Done
  /\ deletes # <<>>
  /\ ~serverExists
  /\ blips = 0
  /\ sigCount = 0
  /\ jobPhase = "done"

\* C24: in one run the server create command is invoked at most once and
\* the build script is submitted at most once, whatever fails; the
\* reachability check and the monitoring checks are what repeats.
C24_NoActionRetried ==
  /\ createCalls <= 1
  /\ scriptsSubmitted <= 1
  /\ Len(stagesStarted) <= 7
  /\ \A i, j \in 1..Len(stagesStarted) : i # j => stagesStarted[i] # stagesStarted[j]

\* the second monitoring tick of a run
C24_Witness ==
  /\ pc = "mon_status"
  /\ obs.procs = 0
  /\ createCalls = 1
  /\ scriptsSubmitted = 1

\* C25: serverId and serverIp are both null until createServer has returned
\* without error, and once set neither is assigned again; a createServer
\* call that fails leaves serverId null.
C25_SetOnlyOnSuccess ==
  /\ [](serverId # Null \/ serverIp # Null => stagesDone >= 2)
  /\ [][/\ serverId # Null => serverId' = serverId
        /\ serverIp # Null => serverIp' = serverIp]_vars

\* C26: artifactName is non-null only once a candidate was found and its
\* copy has completed without error; a failed copy leaves it null.
C26_NameOnlyAfterCopy ==
  artifactName # Null => stagesDone = 7 /\ error = "none" /\ copied # Null

\* C27: whatever the delete command does (exit 0, non-zero exit, spawn
\* error), the cleanup callback returns without raising: called from the
\* 'exit' listener the process ends with the exit status it had, called
\* from a signal or uncaught-error handler process.exit(1) follows.
C27_DeleteNeverEscalates ==
  [][Len(deletes') > Len(deletes) =>
       /\ ~deletes'[Len(deletes')].threw
       /\ error' = error
       /\ pc = "exiting" => pc' = "exited" /\ exitCode' = exitCode
       /\ pc # "exiting" => pc' = "exiting" /\ exitCode' = 1]_vars

C27_Witness ==
  /\ pc = "exited"
  /\ exitCode = 0
  /\ Len(deletes) = 1
  /\ deletes[1].status = StatusNull
  /\ serverExists

\* C28: the callback logs what the delete command did: 'Server deleted' is
\* logged only for a delete command that succeeded.
C28_LogsOutcome ==
  \A i \in 1..Len(deletes) : deletes[i].logged = "Server deleted" => deletes[i].status = 0

BuildLineIndex == Len(script) - 3

HasToken(s) ==
  \E i \in 1..(Len(s) - 3), n \in {"PROFILE", "OUTPUT_FILE"} : SubSeq(s, i, i + 3) = PH(n)

HasSubSeq(s, sub) == \E i \in 0..(Len(s) - Len(sub)) : SubSeq(s, i + 1, i + Len(sub)) = sub

ResolvedOutputPath == interpolateTemplate(outputTemplate(profile, config), profile, config)

\* C31 as stated: when buildCommand holds ${PROFILE} or ${OUTPUT_FILE}, the
\* build line of the composed script holds the profile and the resolved
\* output path and neither token.
C31_Interpolated ==
  pc = "composed" /\ HasToken(config.buildCommand) =>
    /\ ~HasToken(script[BuildLineIndex])
    /\ HasSubSeq(script[BuildLineIndex], profile)
    /\ HasSubSeq(script[BuildLineIndex], ResolvedOutputPath)

\* C31, amended: the build line of the composed script is buildCommand as
\* configured, its ${PROFILE} and ${OUTPUT_FILE} tokens still in it; the line
\* before it assigns OUTPUT_FILE the quoted resolved output path, and an
\* earlier line appends the export of the quoted profile to the remote
\* environment file, which the nohup block sources before the build line.
C31_EmbeddedVerbatim ==
  pc = "composed" =>
    LET cmd == IF config.buildCommand = <<>> THEN buildCommand ELSE config.buildCommand
        envFileArg == quoteShellArg(config.remoteEnvFile)
    IN /\ script[BuildLineIndex] = <<"  ">> \o cmd
       /\ HasToken(config.buildCommand) => HasToken(script[BuildLineIndex])
       /\ script[BuildLineIndex - 1] = <<"  ", "OUTPUT_FILE=">> \o quoteShellArg(ResolvedOutputPath)
       /\ \E k, j \in 1..(BuildLineIndex - 2) :
            /\ k < j
            /\ script[k] = <<"echo \"", "export PROFILE=">> \o quoteShellArg(profile)
                             \o <<"\"", " >> ">> \o envFileArg
            /\ script[j] = <<"  source ">> \o envFileArg
            /\ script[j - 1] = <<"nohup bash -c '">>

C31_Witness ==
  /\ pc = "composed"
  /\ profile = ProfileProduction
  /\ config.artifactForProfile = ScenarioMapping
  /\ script[BuildLineIndex] = <<"  ">> \o CMD_TOKENS
  /\ script[BuildLineIndex - 1] = <<"  ", "OUTPUT_FILE=", "/root/out-", "production", ".aab">>

AllHandlersOnce == \A h \in DOMAIN handlers : handlers[h] = 1

\* C29 as stated: no handler is registered while serverId is unset.
C29_ArmedAfterId ==
  (cleanupRegistered \/ \E h \in DOMAIN handlers : handlers[h] > 0) => serverId # Null

\* C29, amended: the handlers are registered at the start of run(), before
\* any stage and while serverId is unset; as long as serverId is unset the
\* callback deletes nothing.
C29_ArmedAtStart ==
  /\ pc # "idle" => cleanupRegistered /\ AllHandlersOnce
  /\ serverId = Null => deletes = <<>>

C29_Witness ==
  /\ pc = "exited"
  /\ error = "No SSH key found"
  /\ AllHandlersOnce
  /\ serverId = Null
  /\ deletes = <<>>

\* C30: however often registerCleanup is called on one builder, exactly one
\* handler each is installed for exit, SIGINT, SIGTERM, uncaughtException.
C30_RegisteredOnce ==
  /\ registerCalls >= 1 => cleanupRegistered /\ AllHandlersOnce
  /\ registerCalls = 0 => ~cleanupRegistered /\ \A h \in DOMAIN handlers : handlers[h] = 0

C30_Witness ==
  /\ registerCalls = MaxRegisterCalls
  /\ cleanupRegistered
  /\ AllHandlersOnce

\* C11: the local artifact name is 'build-', the ISO timestamp with ':' and
\* '.' and the date/time separator turned into '-' and the 'Z' removed, then
\* the extension of the candidate copied.
STAMP_2024 == <<"2024", "-", "01", "-", "01", "-", "12", "-", "00", "-", "00", "-", "000">>
STAMP_2026 == <<"2026", "-", "11", "-", "03", "-", "23", "-", "59", "-", "59", "-", "999">>

C11_ArtifactName ==
  artifactName # Null =>
    /\ copied # Null
    /\ \E stamp \in {STAMP_2024, STAMP_2026}, ext \in {".apk", ".aab"} :
         /\ copied[Len(copied)] = ext
         /\ artifactName = <<"build-">> \o stamp \o <<ext>>

C11_Witness ==
  /\ copied = P_APK
  /\ artifactName = <<"build-", "2024", "-", "01", "-", "01", "-", "12", "-", "00", "-", "00",
                      "-", "000", ".apk">>

\* C10: the output path of runBuild is the artifactForProfile entry of the
\* profile, or the default entry, with ${PROFILE} substituted.
C10_OutputPath ==
  Len(stagesStarted) >= 5 =>
    /\ config.artifactForProfile = ScenarioMapping =>
         remoteOutputPath = IF profile = ProfileProduction THEN P_OUT_PRODUCTION ELSE P_OUT_APK
    /\ config.artifactForProfile = DEFAULT_CONFIG.artifactForProfile =>
         remoteOutputPath = IF profile = ProfileProduction THEN P_AAB ELSE P_APK

C10_Witness ==
  /\ profile = ProfileProduction
  /\ config.artifactForProfile = ScenarioMapping
  /\ remoteOutputPath = P_OUT_PRODUCTION

====
